---- MODULE Spec2Model ----
(***************************************************************************)
(* Model of the site crawler of seo-auditor-mcp                            *)
(* (src/analyzers/site_crawler.py): SiteCrawler.crawl_site, its link       *)
(* extractor, SiteCrawler.find_broken_links, the response crawl_site is    *)
(* answered with, and the throttler every request goes through.            *)
(*                                                                         *)
(* A URL string is represented by the components urlparse splits it into:  *)
(* [scheme, netloc, path, query, fragment].  A path is the list            *)
(* path.split('/'): "" is <<"">>, "/" is <<"", "">>, "/a" is <<"", "a">>   *)
(* and the relative path "b" is <<"b">>.  Two URL strings are equal        *)
(* exactly when their records are.                                         *)
(***************************************************************************)
EXTENDS Integers, Sequences, FiniteSets, TLC

VARIABLES
    \* ---- crawl_site: arguments and locals
    url,            \* the seed URL argument
    max_pages,      \* argument
    depth,          \* argument (maximum crawl depth)
    crawled_urls,   \* Set[str]
    to_crawl,       \* List[Tuple[str, int]], the frontier
    pages,          \* List[Dict]
    errors,         \* List[str]
    current_url,    \* the entry popped last
    current_depth,
    response,       \* what _make_request returned last
    error,
    pc,             \* "idle" | "loop" | "request" | "done" | "raised"
    result,         \* the dict crawl_site returns
    site_links,     \* history: the links <<page, target>> of the fetched pages
    \* ---- find_broken_links: argument and locals
    fbl_url,
    fbl_response,   \* `response` of line 370: what the seed request returned
    fbl_error,
    fbl_links,      \* `links`: every resolved href of the seed page
    unique_links,
    link_index,     \* position of the for loop in unique_links
    broken_links,
    redirects,
    probe_response, \* `response` of line 401: what the last probe returned
    requests,       \* every GET the session was asked for by find_broken_links
    answers,        \* history: the status each of these GETs answered, if any
    fbl_pc,         \* "idle" | "seed" | "probe" | "done"
    fbl_result,
    \* ---- _extract_internal_links on two hrefs of one page
    n_base,         \* base_url, the URL of the page
    n_href,         \* an href of the page, as text
    n_sibling,      \* an href that differs from it in query and fragment only
    n_key,          \* clean_url of n_href
    n_sibling_key,  \* clean_url of n_sibling
    n_again,        \* clean_url of n_key, met as an href of a page
    n_pc,           \* "idle" | "href" | "key" | "skipped" | "again"
    \* ---- the throttler of the SiteCrawler and the operations that use it
    issued,         \* per operation: the requests it has started
    waiting,        \* the operations inside acquire(), in the order they called
    task_logs,      \* Throttler._task_logs, as ages: now - timestamp, in ticks
    recent,         \* history: the requests started within the last period
    \* ---- two calls of crawl_site on one SiteCrawler, in one event loop
    active,         \* the call that is running: its locals are the variables
                    \* of crawl_site above (0: a single call)
    parked,         \* the locals of the other call, suspended at its await
    \* ---- OnPageSEOAnalyzer._analyze_internal_links on one page
    op_base_url,    \* base_url, as text
    op_links,       \* the href values of soup.find_all('a', href=True)
    op_index,       \* how many of them the loop has been through
    op_analysis,    \* the counters of `analysis`
    op_pc           \* "idle" | "loop" | "done"

crawl_vars == <<url, max_pages, depth, crawled_urls, to_crawl, pages, errors,
                current_url, current_depth, response, error, pc, result,
                site_links>>
fbl_vars == <<fbl_url, fbl_response, fbl_error, fbl_links, unique_links,
              link_index, broken_links, redirects, probe_response, requests,
              answers, fbl_pc, fbl_result>>
norm_vars == <<n_base, n_href, n_sibling, n_key, n_sibling_key, n_again, n_pc>>
thr_vars == <<issued, waiting, task_logs, recent>>
conc_vars == <<active, parked>>
onpage_vars == <<op_base_url, op_links, op_index, op_analysis, op_pc>>
vars == <<crawl_vars, fbl_vars, norm_vars, thr_vars, conc_vars, onpage_vars>>

\* Python's None, where the other values are strings.
None == "None"

\* An Optional[httpx.Response]: None, or a response.
NoResponse == <<>>
Got(resp) == <<resp>>

-----------------------------------------------------------------------------
(* Bounds of the model. *)

MaxPages == 4       \* max_pages ranges over 1..MaxPages
MaxDepth == 2       \* depth ranges over 0..MaxDepth
MaxReportPages == 12    \* pages of the larger crawls whose response is built
MaxReportErrors == 7    \* errors of the larger crawls whose response is built
NumAssets == 52         \* links of the larger page find_broken_links is run on
PeriodTicks == 2        \* clock ticks in the period of the throttler
MaxFetches == 3         \* requests of one call of crawl_site or find_broken_links

-----------------------------------------------------------------------------
(* URLs: urllib.parse as the crawler uses it. *)

Url(scheme, netloc, path, query, fragment) ==
    [scheme |-> scheme, netloc |-> netloc, path |-> path,
     query |-> query, fragment |-> fragment]

EmptyPath == <<"">>
RootPath == <<"", "">>

uses_relative == {"", "http", "https"}
uses_netloc == {"", "http", "https"}

\* segments[1:-1] = filter(None, segments[1:-1])
FilterInterior(segments) ==
    IF Len(segments) < 3 THEN segments
    ELSE <<segments[1]>>
         \o SelectSeq(SubSeq(segments, 2, Len(segments) - 1), LAMBDA s : s # "")
         \o <<segments[Len(segments)]>>

\* The loop of urljoin that removes "." and ".." segments.
RECURSIVE ResolveDots(_, _)
ResolveDots(segments, resolved_path) ==
    IF segments = <<>> THEN resolved_path
    ELSE LET seg == Head(segments) IN
         IF seg = ".." THEN
            ResolveDots(Tail(segments),
                        IF resolved_path = <<>> THEN <<>>
                        ELSE SubSeq(resolved_path, 1, Len(resolved_path) - 1))
         ELSE IF seg = "." THEN ResolveDots(Tail(segments), resolved_path)
         ELSE ResolveDots(Tail(segments), Append(resolved_path, seg))

\* '/'.join(resolved_path) or '/'
JoinOrRoot(resolved_path) ==
    IF resolved_path = <<>> \/ resolved_path = EmptyPath THEN RootPath
    ELSE resolved_path

ResolvePath(bpath, path) ==
    LET base_parts == IF bpath[Len(bpath)] # ""
                      THEN SubSeq(bpath, 1, Len(bpath) - 1) ELSE bpath
        segments == IF Len(path) >= 2 /\ path[1] = ""      \* path[:1] == '/'
                    THEN path
                    ELSE FilterInterior(base_parts \o path)
        resolved == ResolveDots(segments, <<>>)
        closed == IF segments[Len(segments)] \in {".", ".."}
                  THEN Append(resolved, "") ELSE resolved
    IN JoinOrRoot(closed)

(* URL strings.  A string is the list of its delimiters ":", "/", "?", "#"  *)
(* and of the pieces of text between them: "https://example.com/a?q=1" is   *)
(* <<"https", ":", "/", "/", "example.com", "/", "a", "?", "q=1">>.         *)

Delimiters == {":", "/", "?", "#"}

\* text.find(one of tokens), counted from 1; Len(text) + 1 when there is none.
FirstOf(text, tokens) ==
    LET hits == {i \in 1..Len(text) : text[i] \in tokens}
    IN  IF hits = {} THEN Len(text) + 1
        ELSE CHOOSE i \in hits : \A j \in hits : i <= j

\* The piece of text at a position, "" when a delimiter or nothing is there.
AtomAt(text, i) ==
    IF i <= Len(text) /\ text[i] \notin Delimiters THEN text[i] ELSE ""

Atom(t) == IF t = "" THEN <<>> ELSE <<t>>

\* path.split('/')
RECURSIVE SplitPath(_)
SplitPath(text) ==
    LET k == FirstOf(text, {"/"})
    IN  IF k > Len(text) THEN <<AtomAt(text, 1)>>
        ELSE <<AtomAt(text, 1)>> \o SplitPath(SubSeq(text, k + 1, Len(text)))

\* '/'.join(path)
RECURSIVE JoinPath(_)
JoinPath(path) ==
    IF Len(path) = 1 THEN Atom(path[1])
    ELSE Atom(path[1]) \o <<"/">> \o JoinPath(Tail(path))

\* urllib.parse.urlparse: scheme up to the first ":", netloc after "//" up to
\* the next "/", "?" or "#", fragment after the first "#", query after the
\* first "?", and the path.
urlparse(text) ==
    LET has_scheme == Len(text) >= 2 /\ text[1] \notin Delimiters /\ text[2] = ":"
        rest == IF has_scheme THEN SubSeq(text, 3, Len(text)) ELSE text
        has_netloc == Len(rest) >= 2 /\ rest[1] = "/" /\ rest[2] = "/"
        after == IF has_netloc THEN SubSeq(rest, 3, Len(rest)) ELSE rest
        netloc_end == IF has_netloc THEN FirstOf(after, {"/", "?", "#"}) ELSE 1
        tail == SubSeq(after, netloc_end, Len(after))
        hash == FirstOf(tail, {"#"})
        before_hash == SubSeq(tail, 1, hash - 1)
        mark == FirstOf(before_hash, {"?"})
    IN  Url(IF has_scheme THEN text[1] ELSE "",
            IF has_netloc THEN AtomAt(after, 1) ELSE "",
            SplitPath(SubSeq(before_hash, 1, mark - 1)),
            AtomAt(before_hash, mark + 1),
            AtomAt(tail, hash + 1))

\* urllib.parse.urlunparse: a path that follows a netloc gets its leading "/",
\* and "//" goes before the netloc, also before an empty one when the scheme
\* takes a netloc and the path does not itself begin with "//".
urlunparse(u) ==
    LET path == JoinPath(u.path)
        slashed == Len(path) >= 2 /\ path[1] = "/" /\ path[2] = "/"
        with_netloc == u.netloc # ""
                       \/ (u.scheme # "" /\ u.scheme \in uses_netloc /\ ~slashed)
        rooted == IF with_netloc /\ path # <<>> /\ path[1] # "/"
                  THEN <<"/">> \o path ELSE path
    IN  (IF u.scheme = "" THEN <<>> ELSE <<u.scheme, ":">>)
        \o (IF with_netloc THEN <<"/", "/">> \o Atom(u.netloc) ELSE <<>>)
        \o rooted
        \o (IF u.query = "" THEN <<>> ELSE <<"?", u.query>>)
        \o (IF u.fragment = "" THEN <<>> ELSE <<"#", u.fragment>>)

\* The components urljoin computes from those of base and url, for a
\* non-empty url.
urljoin_parts(base, href) ==
    LET scheme == IF href.scheme = "" THEN base.scheme ELSE href.scheme
    IN IF scheme # base.scheme \/ scheme \notin uses_relative THEN href
       ELSE IF scheme \in uses_netloc /\ href.netloc # ""
            THEN [href EXCEPT !.scheme = scheme]
       ELSE LET netloc == IF scheme \in uses_netloc THEN base.netloc
                          ELSE href.netloc
            IN IF href.path = EmptyPath
               THEN Url(scheme, netloc, base.path,
                        IF href.query = "" THEN base.query ELSE href.query,
                        href.fragment)
               ELSE Url(scheme, netloc, ResolvePath(base.path, href.path),
                        href.query, href.fragment)

\* urlparse(urllib.parse.urljoin(base, url)): urljoin returns a string, which
\* lines 183 and 95 take apart again.  The string is url itself when its
\* scheme is not that of base, and urlunparse of the components otherwise.
urljoin(base, href) ==
    IF href.scheme # "" /\ (href.scheme # base.scheme \/ href.scheme \notin uses_relative)
    THEN href
    ELSE urlparse(urlunparse(urljoin_parts(base, href)))

\* f"{parsed_url.scheme}://{parsed_url.netloc}{parsed_url.path}"
CleanUrl(parsed_url) ==
    Url(parsed_url.scheme, parsed_url.netloc, parsed_url.path, "", "")

\* `if not href`
IsEmptyHref(href) == href = Url("", "", EmptyPath, "", "")

\* Variant of IsInternal: every link that names a host passes.
IsInternalAnyHost(parsed_url, base_domain) == parsed_url.netloc # ""

\* The filter of the link extractor: `parsed_url.netloc == base_domain`.
IsInternal(parsed_url, base_domain) == parsed_url.netloc = base_domain

\* Variant of AppendNew: the URL is appended whether or not it is in the list.
AppendAlways(links, clean_url) == Append(links, clean_url)

\* `if clean_url not in links: links.append(clean_url)`
AppendNew(links, clean_url) ==
    IF \E i \in 1..Len(links) : links[i] = clean_url THEN links
    ELSE Append(links, clean_url)

\* _extract_internal_links(html, base_url, base_domain); html is the list of
\* the href values of the page's <a href> tags, in document order.
RECURSIVE ExtractFrom(_, _, _, _)
ExtractFrom(hrefs, base_url, base_domain, links) ==
    IF hrefs = <<>> THEN links
    ELSE LET href == Head(hrefs)
             absolute_url == urljoin(base_url, href)
         IN ExtractFrom(Tail(hrefs), base_url, base_domain,
                IF IsEmptyHref(href) THEN links
                ELSE IF IsInternal(absolute_url, base_domain)
                     THEN AppendNew(links, CleanUrl(absolute_url))
                     ELSE links)

extract_internal_links(html, base_url, base_domain) ==
    ExtractFrom(html, base_url, base_domain, <<>>)

-----------------------------------------------------------------------------
(* The inputs: seeds, pages and fetch outcomes. *)

SeedHost == "example.com"

Seeds ==
    { Url("https", SeedHost, RootPath, "", ""),           \* https://example.com/
      Url("https", SeedHost, EmptyPath, "", ""),          \* https://example.com
      Url("https", SeedHost, RootPath, "ref=1", ""),      \* https://example.com/?ref=1
      Url("https", SeedHost, <<"", "a">>, "", "top") }    \* https://example.com/a#top

hA == Url("", "", <<"", "a">>, "", "")                    \* /a
hAq == Url("", "", <<"", "a">>, "x=1", "top")             \* /a?x=1#top
hAbsA == Url("https", SeedHost, <<"", "a">>, "", "")      \* https://example.com/a
hB == Url("", "", <<"b">>, "", "")                        \* b
hC == Url("", "", <<"", "c">>, "", "")                    \* /c
hRoot == Url("", "", RootPath, "", "")                    \* /
hFrag == Url("", "", EmptyPath, "", "top")                \* #top
hUp == Url("", "", <<"..", "">>, "", "")                  \* ../
hExt == Url("https", "other.com", RootPath, "", "")       \* https://other.com/
hProto == Url("", "other.com", <<"", "a">>, "", "")       \* //other.com/a
hSub == Url("https", "sub.example.com", RootPath, "", "") \* https://sub.example.com/
hMail == Url("mailto", "", <<"bot@example.com">>, "", "") \* mailto:bot@example.com
hJs == Url("javascript", "", <<"void(0)">>, "", "")       \* javascript:void(0)
hTel == Url("tel", "", <<"+15550100">>, "", "")           \* tel:+15550100
hEmpty == Url("", "", EmptyPath, "", "")                  \* the empty href

\* The pages a fetch may return: the hrefs of the <a href> tags of the page.
Bodies ==
    { <<>>,
      <<hA, hB>>,
      <<hB, hA>>,
      <<hA, hAq, hAbsA>>,
      <<hRoot, hFrag, hUp>>,
      <<hExt, hA>>,
      <<hExt, hProto, hSub>>,
      <<hMail, hJs, hTel, hEmpty>>,
      <<hA, hB, hC, hRoot, hAq>> }


\* str(e) of the exception a request raised; an exception may have no message.
ErrorMessages == {"ReadTimeout", ""}

\* The responses a request may return: any of the pages with status 200, an
\* error page that links home and an error page without links.
Responses ==
    [status_code : {200}, text : Bodies]
    \cup {[status_code |-> 404, text |-> <<hRoot, hA>>],
          [status_code |-> 500, text |-> <<>>]}

-----------------------------------------------------------------------------
(* crawl_site *)

PagesShown == 10
ErrorsShown == 5

Take(s, n) == SubSeq(s, 1, IF Len(s) < n THEN Len(s) ELSE n)

base_domain == url.netloc

\* Variant of analyze_page: the summary of an error page is left empty.
analyze_page_ok_only(u, resp) ==
    IF resp.status_code >= 400
    THEN [url |-> Url("", "", EmptyPath, "", ""), status_code |-> 0,
          internal_links |-> 0]
    ELSE [url |-> u, status_code |-> resp.status_code,
          internal_links |-> Len(resp.text)]

\* _analyze_page: the fields of the summary the model follows.
analyze_page(u, resp) ==
    [url |-> u, status_code |-> resp.status_code, internal_links |-> Len(resp.text)]

\* Variant of FailedToCrawl: the message leaves the URL out.
FailedToCrawlNoUrl(u, e) == [url |-> Url("", "", EmptyPath, "", ""), error |-> e]

\* f"Failed to crawl {current_url}: {error}"
FailedToCrawl(u, e) == [url |-> u, error |-> e]

\* Variant of LoopCondition: `<=` for `<`.
LoopConditionOffByOne == to_crawl # <<>> /\ Cardinality(crawled_urls) <= max_pages

\* `while to_crawl and len(crawled_urls) < max_pages`
LoopCondition == to_crawl # <<>> /\ Cardinality(crawled_urls) < max_pages

\* Variant of Skipped: only the depth is tested.
SkippedByDepthOnly(u, d) == d > depth

\* `if current_url in crawled_urls or current_depth > depth: continue`
Skipped(u, d) == u \in crawled_urls \/ d > depth

\* Variant of PopIndex: to_crawl.pop(), the last entry.
PopLast(q) == Len(q)

\* Variant of Remaining: to_crawl[0] is read and never removed.
RemainingAll(q) == q

\* to_crawl.pop(0): the position popped, and the list that is left.
PopIndex(q) == 1
Remaining(q) == SubSeq(q, 1, PopIndex(q) - 1) \o SubSeq(q, PopIndex(q) + 1, Len(q))
Popped(q) == q[PopIndex(q)]

\* Variant of MarkCrawled: the URL is never added.
MarkNothing(seen, u) == seen

\* crawled_urls.add(current_url)
MarkCrawled(seen, u) == seen \cup {u}

\* Variant of Enqueue: a link is given the depth of the page it was found on.
RECURSIVE EnqueueSameDepth(_, _, _, _)
EnqueueSameDepth(q, internal_links, seen, d) ==
    IF internal_links = <<>> THEN q
    ELSE EnqueueSameDepth(IF Head(internal_links) \notin seen
                          THEN Append(q, <<Head(internal_links), d - 1>>) ELSE q,
                          Tail(internal_links), seen, d)

\* Variant of Enqueue: the loop stops at the first link already crawled.
RECURSIVE EnqueueUntilSeen(_, _, _, _)
EnqueueUntilSeen(q, internal_links, seen, d) ==
    IF internal_links = <<>> \/ Head(internal_links) \in seen THEN q
    ELSE EnqueueUntilSeen(Append(q, <<Head(internal_links), d>>),
                          Tail(internal_links), seen, d)

\* `for link in internal_links: if link not in crawled_urls: to_crawl.append(...)`
RECURSIVE Enqueue(_, _, _, _)
Enqueue(q, internal_links, seen, d) ==
    IF internal_links = <<>> THEN q
    ELSE Enqueue(IF Head(internal_links) \notin seen
                 THEN Append(q, <<Head(internal_links), d>>) ELSE q,
                 Tail(internal_links), seen, d)

\* Variant of CrawlResponse: pages_crawled counts the fetched pages only.
CrawlResponseCountsPages ==
    [url |-> url,
     pages_found |-> Len(pages),
     pages_crawled |-> Len(pages),
     errors |-> Len(errors),
     crawl_depth |-> depth,
     pages |-> Take(pages, PagesShown),
     error_summary |-> Take(errors, ErrorsShown)]

\* Variant of CrawlResponse: the counts are those of the lists shown.
CrawlResponseCountsShown ==
    [url |-> url,
     pages_found |-> Len(Take(pages, PagesShown)),
     pages_crawled |-> Cardinality(crawled_urls),
     errors |-> Len(Take(errors, ErrorsShown)),
     crawl_depth |-> depth,
     pages |-> Take(pages, PagesShown),
     error_summary |-> Take(errors, ErrorsShown)]

\* The dict crawl_site returns.
CrawlResponse ==
    [url |-> url,
     pages_found |-> Len(pages),
     pages_crawled |-> Cardinality(crawled_urls),
     errors |-> Len(errors),
     crawl_depth |-> depth,
     pages |-> Take(pages, PagesShown),
     error_summary |-> Take(errors, ErrorsShown)]

\* What `await session.get(url)` does at line 57: it returns a response or
\* raises an exception whose str() is the message.
Returned(resp) == [raised |-> FALSE, response |-> Got(resp), message |-> ""]

Raised(e) == [raised |-> TRUE, response |-> NoResponse, message |-> e]

\* Variant of make_request: no except clause, the exception leaves the method.
make_request_unguarded(outcome) ==
    [propagates |-> outcome.raised,
     response |-> outcome.response,
     error |-> IF outcome.raised THEN outcome.message ELSE None]

\* _make_request: (response, None) when session.get returned, (None, str(e))
\* when it raised; `propagates` tells whether an exception leaves the method.
make_request(outcome) ==
    [propagates |-> FALSE,
     response |-> IF outcome.raised THEN NoResponse ELSE outcome.response,
     error |-> IF outcome.raised THEN outcome.message ELSE None]

\* `if error or not response` at lines 97 and 372.
fetch_failed(r) == (r.error # None /\ r.error # "") \/ r.response = NoResponse

\* The same-host links of a fetched page, as pairs <<page, target>>: what
\* _extract_internal_links (line 103) finds in the page's body.
LinksOf(page_url, html) ==
    LET internal_links == extract_internal_links(html, page_url, base_domain)
    IN  {<<page_url, internal_links[i]>> : i \in 1..Len(internal_links)}

InitCrawlIdle ==
    /\ url = None /\ max_pages = 0 /\ depth = 0
    /\ crawled_urls = {} /\ to_crawl = <<>> /\ pages = <<>> /\ errors = <<>>
    /\ current_url = None /\ current_depth = 0
    /\ response = NoResponse /\ error = None
    /\ pc = "idle" /\ result = None
    /\ site_links = {}

\* The operations of one SiteCrawler that send requests.
Operations == {"crawl_site", "find_broken_links", "check_robots_txt", "check_sitemap"}

\* Line 28: a new Throttler, no request started yet.
InitThrottler ==
    /\ issued = [op \in Operations |-> 0]
    /\ waiting = <<>>
    /\ task_logs = <<>>
    /\ recent = <<>>

InitOnPageIdle ==
    /\ op_base_url = <<>> /\ op_links = <<>> /\ op_index = 0
    /\ op_analysis = <<>> /\ op_pc = "idle"

\* No second call of crawl_site.
InitOneCall == active = 0 /\ parked = <<>>

InitNormIdle ==
    /\ n_base = None /\ n_href = <<>> /\ n_sibling = <<>>
    /\ n_key = <<>> /\ n_sibling_key = <<>> /\ n_again = <<>>
    /\ n_pc = "idle"

InitFblIdle ==
    /\ fbl_url = None /\ fbl_response = NoResponse /\ fbl_error = None
    /\ fbl_links = <<>> /\ unique_links = <<>> /\ link_index = 0
    /\ broken_links = <<>> /\ redirects = <<>> /\ requests = <<>>
    /\ answers = <<>> /\ probe_response = NoResponse
    /\ fbl_pc = "idle" /\ fbl_result = None

\* The state at line 86, before the first test of the loop condition.
Init ==
    /\ url \in Seeds
    /\ max_pages \in 1..MaxPages
    /\ depth \in 0..MaxDepth
    /\ crawled_urls = {}
    /\ to_crawl = <<<<url, 0>>>>
    /\ pages = <<>>
    /\ errors = <<>>
    /\ current_url = None /\ current_depth = 0
    /\ response = NoResponse /\ error = None
    /\ pc = "loop" /\ result = None
    /\ site_links = {}
    /\ InitFblIdle /\ InitNormIdle /\ InitThrottler /\ InitOnPageIdle /\ InitOneCall

\* Lines 86-90: an entry is popped and dropped.
SkipEntry ==
    /\ pc = "loop" /\ LoopCondition
    /\ Skipped(Popped(to_crawl)[1], Popped(to_crawl)[2])
    /\ current_url' = Popped(to_crawl)[1]
    /\ current_depth' = Popped(to_crawl)[2]
    /\ to_crawl' = Remaining(to_crawl)
    /\ UNCHANGED <<url, max_pages, depth, crawled_urls, pages, errors,
                   response, error, pc, result, site_links>>

\* Variant of VisitEntry: the frontier is taken as a set, any entry that is
\* not skipped may be the one popped.
VisitEntryAnyOrder ==
    /\ pc = "loop" /\ LoopCondition
    /\ \E i \in 1..Len(to_crawl) :
         /\ ~Skipped(to_crawl[i][1], to_crawl[i][2])
         /\ current_url' = to_crawl[i][1]
         /\ current_depth' = to_crawl[i][2]
         /\ to_crawl' = SubSeq(to_crawl, 1, i - 1) \o SubSeq(to_crawl, i + 1, Len(to_crawl))
         /\ crawled_urls' = MarkCrawled(crawled_urls, to_crawl[i][1])
    /\ pc' = "request"
    /\ UNCHANGED <<url, max_pages, depth, pages, errors, response, error, result,
                   site_links>>

\* Lines 86-95: an entry is popped, marked crawled and its request is issued.
VisitEntry ==
    /\ pc = "loop" /\ LoopCondition
    /\ ~Skipped(Popped(to_crawl)[1], Popped(to_crawl)[2])
    /\ current_url' = Popped(to_crawl)[1]
    /\ current_depth' = Popped(to_crawl)[2]
    /\ to_crawl' = Remaining(to_crawl)
    /\ crawled_urls' = MarkCrawled(crawled_urls, Popped(to_crawl)[1])
    /\ pc' = "request"
    /\ UNCHANGED <<url, max_pages, depth, pages, errors, response, error, result,
                   site_links>>

\* Variant of RequestFailed: `break` for `continue`.
RequestFailedBreaks ==
    /\ pc = "request"
    /\ \E e \in ErrorMessages :
         /\ response' = NoResponse
         /\ error' = e
         /\ errors' = Append(errors, FailedToCrawl(current_url, e))
         /\ result' = [CrawlResponse EXCEPT
                         !.errors = Len(errors) + 1,
                         !.error_summary =
                            Take(Append(errors, FailedToCrawl(current_url, e)),
                                 ErrorsShown)]
    /\ pc' = "done"
    /\ UNCHANGED <<url, max_pages, depth, crawled_urls, to_crawl, pages,
                   current_url, current_depth, site_links>>

\* Variant of RequestFailed: the failure is not recorded.
RequestFailedUnrecorded ==
    /\ pc = "request"
    /\ \E e \in ErrorMessages :
         /\ response' = NoResponse
         /\ error' = e
    /\ pc' = "loop"
    /\ UNCHANGED <<url, max_pages, depth, crawled_urls, to_crawl, pages, errors,
                   current_url, current_depth, result, site_links>>

\* Lines 95-99: session.get raised inside _make_request, which returned
\* (None, str(e)); an exception leaving _make_request would leave crawl_site.
RequestFailed ==
    /\ pc = "request"
    /\ \E e \in ErrorMessages :
         LET r == make_request(Raised(e)) IN
           IF r.propagates
           THEN /\ pc' = "raised"
                /\ UNCHANGED <<response, error, errors>>
           ELSE /\ fetch_failed(r)
                /\ response' = r.response
                /\ error' = r.error
                /\ errors' = Append(errors, FailedToCrawl(current_url, r.error))
                /\ pc' = "loop"
    /\ UNCHANGED <<url, max_pages, depth, crawled_urls, to_crawl, pages,
                   current_url, current_depth, result, site_links>>

\* Lines 95-110: _make_request returned (response, None).
RequestSucceeded ==
    /\ pc = "request"
    /\ \E resp \in Responses :
         /\ ~make_request(Returned(resp)).propagates
         /\ ~fetch_failed(make_request(Returned(resp)))
         /\ response' = make_request(Returned(resp)).response
         /\ error' = make_request(Returned(resp)).error
         /\ pages' = Append(pages, analyze_page(current_url, resp))
         /\ to_crawl' =
              IF current_depth < depth
              THEN Enqueue(to_crawl,
                           extract_internal_links(resp.text, current_url, base_domain),
                           crawled_urls, current_depth + 1)
              ELSE to_crawl
         /\ site_links' = site_links \cup LinksOf(current_url, resp.text)
    /\ pc' = "loop"
    /\ UNCHANGED <<url, max_pages, depth, crawled_urls, errors,
                   current_url, current_depth, result>>

\* Lines 86, 113-134: the loop ends, save_crawl_result stores the CrawlResult
\* and the response is returned.
LoopExit ==
    /\ pc = "loop" /\ ~LoopCondition
    /\ pc' = "done"
    /\ result' = CrawlResponse
    /\ UNCHANGED <<url, max_pages, depth, crawled_urls, to_crawl, pages, errors,
                   current_url, current_depth, response, error, site_links>>

\* Lines 86, 113-123: the loop ends and save_crawl_result raises (an sqlite3
\* error), and so does crawl_site.
SaveRaised ==
    /\ pc = "loop" /\ ~LoopCondition
    /\ pc' = "raised"
    /\ UNCHANGED <<url, max_pages, depth, crawled_urls, to_crawl, pages, errors,
                   current_url, current_depth, response, error, result,
                   site_links>>

Next ==
    \/ (SkipEntry /\ UNCHANGED <<fbl_vars, norm_vars, thr_vars, conc_vars, onpage_vars>>)
    \/ (VisitEntry /\ UNCHANGED <<fbl_vars, norm_vars, thr_vars, conc_vars, onpage_vars>>)
    \/ (RequestFailed /\ UNCHANGED <<fbl_vars, norm_vars, thr_vars, conc_vars, onpage_vars>>)
    \/ (RequestSucceeded /\ UNCHANGED <<fbl_vars, norm_vars, thr_vars, conc_vars, onpage_vars>>)
    \/ (LoopExit /\ UNCHANGED <<fbl_vars, norm_vars, thr_vars, conc_vars, onpage_vars>>)
    \/ (SaveRaised /\ UNCHANGED <<fbl_vars, norm_vars, thr_vars, conc_vars, onpage_vars>>)

Spec == Init /\ [][Next]_vars

\* Every request returns (httpx applies REQUEST_TIMEOUT) and the event loop
\* resumes the coroutine: a step that can be taken is taken.
FairSpec == Spec /\ WF_vars(Next)


-----------------------------------------------------------------------------
(* Properties of crawl_site *)

FrontierUrls == {to_crawl[i][1] : i \in 1..Len(to_crawl)}
ErrorUrls == {errors[i].url : i \in 1..Len(errors)}
FiveLinkPage == <<hA, hB, hC, hRoot, hAq>>

\* C1: the visited set never holds more than max_pages URLs, at any step and
\* in the report; with max_pages = 1 only the seed is fetched, whatever
\* the frontier still holds.
C1_PageBudget ==
    /\ Cardinality(crawled_urls) <= max_pages
    /\ pc = "done" => result.pages_crawled <= max_pages
    /\ (max_pages = 1 /\ pc \in {"done", "raised"}) =>
          /\ crawled_urls = {url}
          /\ Len(pages) + Len(errors) = 1

\* A crawl with max_pages = 1 ended on a seed page of five internal links,
\* with links left on the frontier.
C1_Witness ==
    /\ pc = "done" /\ max_pages = 1
    /\ Len(pages) = 1 /\ response # NoResponse /\ response[1].text = FiveLinkPage
    /\ Len(to_crawl) >= 2
    /\ result.pages_crawled = 1

\* C2: breadth-first order.  Every dequeue takes the entry at the head of the
\* frontier, its depth is no smaller than the depth dequeued before and no
\* larger than the depth of any entry left, and links are only ever added
\* behind the entries already waiting.
C2_BreadthFirst ==
    [][ /\ (pc = "loop" /\ pc' \in {"loop", "request"}) =>
              /\ to_crawl # <<>>
              /\ <<current_url', current_depth'>> = Head(to_crawl)
              /\ to_crawl' = Tail(to_crawl)
              /\ current_depth' >= current_depth
              /\ \A i \in 1..Len(to_crawl') : to_crawl'[i][2] >= current_depth'
        /\ pc = "request" =>
              /\ Len(to_crawl') >= Len(to_crawl)
              /\ SubSeq(to_crawl', 1, Len(to_crawl)) = to_crawl
      ]_vars

\* A depth-1 page is being fetched while depth-1 and depth-2 entries wait.
C2_Witness ==
    /\ pc = "request" /\ current_depth = 1
    /\ \E i, j \in 1..Len(to_crawl) : to_crawl[i][2] = 1 /\ to_crawl[j][2] = 2

\* C3: every visited URL is in normalized form (no query, no fragment), and
\* no page is visited under two spellings.
C3_VisitedNormalized ==
    /\ \A u \in crawled_urls : u.query = "" /\ u.fragment = ""
    /\ \A u, v \in crawled_urls : CleanUrl(u) = CleanUrl(v) => u = v

\* C4: a failed fetch appends exactly one error entry with the URL and the
\* message, creates no page summary, leaves frontier and visited set alone
\* and returns to the head of the loop.
C4_FailureRecorded ==
    [][ (pc = "request" /\ error' # None) =>
            /\ errors' = Append(errors, [url |-> current_url, error |-> error'])
            /\ pages' = pages
            /\ to_crawl' = to_crawl
            /\ crawled_urls' = crawled_urls
            /\ pc' = "loop"
      ]_vars

\* After a failed fetch of a page other than the seed, a later page was fetched.
C4_Witness ==
    /\ pc = "loop" /\ error = None /\ response # NoResponse
    /\ Len(errors) = 1 /\ errors[1].url # url
    /\ Len(pages) = 2 /\ pages[2].url = current_url

\* C5 as stated: the reported pages_crawled leaves the failed URLs out.
C5_FailedNotCounted ==
    pc = "done" => result.pages_crawled = Cardinality(crawled_urls \ ErrorUrls)

\* C5 amended: a failed URL is left out of pages_found, is counted in
\* pages_crawled and takes one unit of the max_pages budget.
C5_FailedCounted ==
    pc = "done" =>
        /\ result.pages_found = Cardinality(crawled_urls \ ErrorUrls)
        /\ result.pages_crawled = result.pages_found + result.errors
        /\ result.pages_found + result.errors <= max_pages

\* A crawl ended by the budget, one unit of which a failed URL took.
C5_Witness ==
    /\ pc = "done" /\ result.errors >= 1 /\ result.pages_found >= 1
    /\ result.pages_crawled = max_pages
    /\ to_crawl # <<>>

\* C6: the reported pages_crawled is the size of the visited set, and every
\* page summary is of a visited URL.
C6_ReportMatchesVisited ==
    /\ \A i \in 1..Len(pages) : pages[i].url \in crawled_urls
    /\ pc = "done" =>
          /\ result.pages_crawled = Cardinality(crawled_urls)
          /\ \A i \in 1..Len(result.pages) : result.pages[i].url \in crawled_urls

\* A finished crawl with pages and an error.
C6_Witness ==
    /\ pc = "done" /\ Len(result.pages) >= 2 /\ result.errors >= 1

\* C7 as stated: a crawl whose seed fetch failed returns a top-level error.
C7_SeedFailureIsTopLevelError ==
    (pc = "done" /\ pages = <<>>) => "error" \in DOMAIN result

\* C7 amended: a crawl whose seed fetch failed returns an ordinary report, with
\* no page, one crawled URL and one error entry, which names the seed.
C7_SeedFailureIsReport ==
    (pc = "done" /\ pages = <<>>) =>
        /\ "error" \notin DOMAIN result
        /\ result.pages_found = 0
        /\ result.pages_crawled = 1
        /\ result.errors = 1
        /\ result.pages = <<>>
        /\ result.error_summary = <<[url |-> url, error |-> error]>>

\* The seed fetch failed and crawl_site has returned.
C7_Witness ==
    /\ pc = "done" /\ pages = <<>> /\ error = "ReadTimeout"
    /\ crawled_urls = {url}

C16_MakeRequestNeverRaises ==
    [][pc = "request"
         => /\ pc' = "loop"
            /\ (response' = NoResponse) # (error' = None)
            /\ (response' = NoResponse) => (error' \in ErrorMessages)]_vars

\* A failure whose message is the empty string has been returned as (None, "").
C16_Witness ==
    /\ pc = "loop" /\ response = NoResponse /\ error = ""
    /\ Len(pages) > 0 /\ Len(errors) > 0

PageUrls == {pages[i].url : i \in 1..Len(pages)}

\* The URLs a chain of at most k links leads to from the seed, through the
\* pages that were fetched.
RECURSIVE ReachableWithin(_)
ReachableWithin(k) ==
    IF k = 0 THEN {url}
    ELSE LET R == ReachableWithin(k - 1)
         IN  R \cup {e[2] : e \in {x \in site_links : x[1] \in R}}

\* C19: when crawl_site has returned and max_pages is larger than the number
\* of URLs within max_depth links of the seed, every one of these URLs is in
\* the report, among the pages or among the errors.
C19_ReachableReported ==
    (pc = "done" /\ Cardinality(ReachableWithin(depth)) < max_pages)
        => \A u \in ReachableWithin(depth) : u \in PageUrls \cup ErrorUrls

\* A crawl of three URLs has returned under a budget of four: one page is two
\* links away from the seed, and one fetch failed.
C19_Witness ==
    /\ pc = "done" /\ depth = 2 /\ max_pages = 4
    /\ Cardinality(ReachableWithin(depth)) = 3
    /\ ReachableWithin(2) # ReachableWithin(1)
    /\ ReachableWithin(1) # ReachableWithin(0)
    /\ Len(errors) = 1 /\ Len(pages) = 2

\* C10: every URL on the frontier and every URL fetched has the host of the
\* seed URL.
C10_SameHostOnly ==
    /\ \A u \in FrontierUrls : u.netloc = url.netloc
    /\ \A u \in crawled_urls : u.netloc = url.netloc

\* The links of a page that names only other hosts were extracted.
C10_Witness ==
    /\ pc = "loop" /\ current_depth < depth
    /\ response # NoResponse /\ response[1].text = <<hExt, hProto, hSub>>

-----------------------------------------------------------------------------
(* find_broken_links *)

\* Variant of LinkCap: one link more.
LinkCapFiftyOne == 50 + 1

LinkCap == 50

\* Variant of RedirectCodes: every 3xx status.
RedirectCodesAny3xx == 300..399

RedirectCodes == {301, 302, 303, 307, 308}

\* What a probe may answer: a status and the Location header ("" when absent).
ProbeStatuses == {200, 301, 304, 308, 400, 503}
Locations == {"/new", ""}
ProbeResponses == [status_code : ProbeStatuses, location : Locations]

\* The request log: one entry per GET find_broken_links asks the session for.
Get(u, follow) == [url |-> u, follow_redirects |-> follow]

\* The links list of lines 381-388: every non-empty href, resolved.
ResolveAll(hrefs, base_url) ==
    LET kept == SelectSeq(hrefs, LAMBDA href : ~IsEmptyHref(href))
    IN  [i \in 1..Len(kept) |-> urljoin(base_url, kept[i])]

Range(s) == {s[i] : i \in 1..Len(s)}

\* list(set(links)): the distinct links in whatever order the set iterates.
Orderings(S) ==
    {s \in [1..Cardinality(S) -> S] : \A i, j \in 1..Cardinality(S) : s[i] = s[j] => i = j}

\* The distinct elements of a list, in the order of their first occurrence.
Distinct(s) ==
    LET numbered == [i \in 1..Len(s) |-> <<i, s[i]>>]
        first == SelectSeq(numbered,
                           LAMBDA p : \A j \in 1..(p[1] - 1) : s[j] # p[2])
    IN  [i \in 1..Len(first) |-> first[i][2]]

Rotations(s) ==
    {[i \in 1..Len(s) |-> s[((i + k - 1) % Len(s)) + 1]] : k \in 0..(Len(s) - 1)}

\* list(set(links)) at line 391: every order for the sets of up to four
\* links; for a larger set, the rotations of the order of first occurrence.
ListOfSet(resolved) ==
    IF Cardinality(Range(resolved)) <= 4
    THEN Orderings(Range(resolved))
    ELSE Rotations(Distinct(resolved))

\* Variant of SeedErrorResult: `error` without `or "Could not fetch page"`.
SeedErrorResultNoFallback(u, e) ==
    [url |-> u, error |-> e, broken_links |-> <<>>, redirects |-> <<>>]

\* The dict returned when the seed page cannot be fetched (lines 372-378).
SeedErrorResult(u, e) ==
    [url |-> u,
     error |-> IF e # "" THEN e ELSE "Could not fetch page",
     broken_links |-> <<>>,
     redirects |-> <<>>]

\* Variant of AuditResult: healthy_links leaves the redirects in.
AuditResultForgetsRedirects ==
    [url |-> fbl_url,
     total_links_checked |-> Len(unique_links),
     broken_links |-> broken_links,
     redirects |-> redirects,
     broken_count |-> Len(broken_links),
     redirect_count |-> Len(redirects),
     healthy_links |-> Len(unique_links) - Len(broken_links)]

\* The dict returned after the probes (lines 423-438).
AuditResult ==
    [url |-> fbl_url,
     total_links_checked |-> Len(unique_links),
     broken_links |-> broken_links,
     redirects |-> redirects,
     broken_count |-> Len(broken_links),
     redirect_count |-> Len(redirects),
     healthy_links |-> Len(unique_links) - Len(broken_links) - Len(redirects)]

\* A larger seed page: NumAssets links to another host, the first one twice.
AssetHost == "cdn.example.net"
AssetHref(i) == Url("https", AssetHost, <<"", ToString(i)>>, "", "")
AssetPage ==
    [status_code |-> 200,
     text |-> [i \in 1..(NumAssets + 1) |->
                 AssetHref(IF i > NumAssets THEN 1 ELSE i)]]

\* The seed pages find_broken_links is run on.
AuditResponses == {r \in Responses : Len(r.text) <= 4} \cup {AssetPage}

\* What the probe of a link may answer; the links of the larger page are all
\* in order.
ProbeResponsesOf(link) ==
    IF link.netloc = AssetHost
    THEN {[status_code |-> 200, location |-> ""]}
    ELSE ProbeResponses

InitLinks ==
    /\ InitCrawlIdle /\ InitNormIdle /\ InitThrottler /\ InitOnPageIdle /\ InitOneCall
    /\ fbl_url \in Seeds
    /\ fbl_response = NoResponse /\ fbl_error = None
    /\ fbl_links = <<>> /\ unique_links = <<>> /\ link_index = 0
    /\ broken_links = <<>> /\ redirects = <<>> /\ requests = <<>>
    /\ answers = <<>> /\ probe_response = NoResponse
    /\ fbl_pc = "seed" /\ fbl_result = None

\* Lines 370-378: the request for the seed page failed.
SeedFailed ==
    /\ fbl_pc = "seed"
    /\ requests' = Append(requests, Get(fbl_url, TRUE))
    /\ answers' = Append(answers, NoResponse)
    /\ \E e \in ErrorMessages :
         LET r == make_request(Raised(e)) IN
           IF r.propagates
           THEN /\ fbl_pc' = "raised"
                /\ UNCHANGED <<fbl_response, fbl_error, fbl_result>>
           ELSE /\ fetch_failed(r)
                /\ fbl_response' = r.response
                /\ fbl_error' = r.error
                /\ fbl_result' = SeedErrorResult(fbl_url, r.error)
                /\ fbl_pc' = "done"
    /\ UNCHANGED <<fbl_url, fbl_links, unique_links, link_index, broken_links,
                   redirects, probe_response>>

\* Lines 370-394: the seed page arrived and its links are collected.
SeedFetched ==
    /\ fbl_pc = "seed"
    /\ requests' = Append(requests, Get(fbl_url, TRUE))
    /\ \E resp \in AuditResponses :
         /\ ~make_request(Returned(resp)).propagates
         /\ ~fetch_failed(make_request(Returned(resp)))
         /\ fbl_response' = make_request(Returned(resp)).response
         /\ fbl_error' = make_request(Returned(resp)).error
         /\ answers' = Append(answers, Got(resp.status_code))
         /\ fbl_links' = ResolveAll(resp.text, fbl_url)
         /\ \E order \in ListOfSet(ResolveAll(resp.text, fbl_url)) :
               unique_links' = Take(order, LinkCap)
    /\ link_index' = 1
    /\ fbl_pc' = "probe"
    /\ UNCHANGED <<fbl_url, broken_links, redirects, probe_response, fbl_result>>

\* Lines 397-415: the probe of the next link got a response.
ProbeResponded ==
    /\ fbl_pc = "probe" /\ link_index <= Len(unique_links)
    /\ requests' = Append(requests, Get(unique_links[link_index], FALSE))
    /\ \E resp \in ProbeResponsesOf(unique_links[link_index]) :
         /\ probe_response' = Got(resp)
         /\ answers' = Append(answers, Got(resp.status_code))
         /\ IF resp.status_code >= 400
            THEN /\ broken_links' = Append(broken_links,
                        [url |-> unique_links[link_index],
                         status_code |-> resp.status_code,
                         error |-> <<"HTTP", resp.status_code>>])
                 /\ redirects' = redirects
            ELSE IF resp.status_code \in RedirectCodes
            THEN /\ redirects' = Append(redirects,
                        [url |-> unique_links[link_index],
                         status_code |-> resp.status_code,
                         redirect_target |-> resp.location])
                 /\ broken_links' = broken_links
            ELSE UNCHANGED <<broken_links, redirects>>
    /\ link_index' = link_index + 1
    /\ UNCHANGED <<fbl_url, fbl_response, fbl_error, fbl_links, unique_links,
                   fbl_pc, fbl_result>>

\* Variant of ProbeRaised: no except clause, the exception ends the call.
ProbeRaisedPropagates ==
    /\ fbl_pc = "probe" /\ link_index <= Len(unique_links)
    /\ unique_links[link_index].netloc # AssetHost
    /\ requests' = Append(requests, Get(unique_links[link_index], FALSE))
    /\ answers' = Append(answers, NoResponse)
    /\ fbl_pc' = "raised"
    /\ UNCHANGED <<fbl_url, fbl_response, fbl_error, fbl_links, unique_links,
                   link_index, broken_links, redirects, probe_response,
                   fbl_result>>

\* Lines 397-421: the probe of the next link raised.
ProbeRaised ==
    /\ fbl_pc = "probe" /\ link_index <= Len(unique_links)
    /\ unique_links[link_index].netloc # AssetHost
    /\ requests' = Append(requests, Get(unique_links[link_index], FALSE))
    /\ answers' = Append(answers, NoResponse)
    /\ \E e \in ErrorMessages :
         broken_links' = Append(broken_links,
                                [url |-> unique_links[link_index], error |-> e])
    /\ link_index' = link_index + 1
    /\ UNCHANGED <<fbl_url, fbl_response, fbl_error, fbl_links, unique_links,
                   redirects, probe_response, fbl_pc, fbl_result>>

\* Lines 423-438: every link is probed and the audit is returned.
AuditReturned ==
    /\ fbl_pc = "probe" /\ link_index > Len(unique_links)
    /\ fbl_result' = AuditResult
    /\ fbl_pc' = "done"
    /\ UNCHANGED <<fbl_url, fbl_response, fbl_error, fbl_links, unique_links,
                   link_index, broken_links, redirects, probe_response, requests,
                   answers>>

NextLinks ==
    \/ (SeedFailed /\ UNCHANGED <<crawl_vars, norm_vars, thr_vars, conc_vars, onpage_vars>>)
    \/ (SeedFetched /\ UNCHANGED <<crawl_vars, norm_vars, thr_vars, conc_vars, onpage_vars>>)
    \/ (ProbeResponded /\ UNCHANGED <<crawl_vars, norm_vars, thr_vars, conc_vars, onpage_vars>>)
    \/ (ProbeRaised /\ UNCHANGED <<crawl_vars, norm_vars, thr_vars, conc_vars, onpage_vars>>)
    \/ (AuditReturned /\ UNCHANGED <<crawl_vars, norm_vars, thr_vars, conc_vars, onpage_vars>>)

SpecLinks == InitLinks /\ [][NextLinks]_vars

-----------------------------------------------------------------------------
(* Properties of find_broken_links *)

\* C8: when the seed page cannot be fetched the call returns at once, with the
\* error message and empty lists, and the seed request is the only request.
C8_SeedFailureReturnsError ==
    fbl_error # None =>
        /\ fbl_pc = "done"
        /\ fbl_result = [url |-> fbl_url,
                         error |-> IF fbl_error = "" THEN "Could not fetch page"
                                   ELSE fbl_error,
                         broken_links |-> <<>>,
                         redirects |-> <<>>]
        /\ requests = <<Get(fbl_url, TRUE)>>

\* The seed request failed with an exception that has no message.
C8_Witness ==
    /\ fbl_pc = "done" /\ fbl_error = ""
    /\ fbl_result.error = "Could not fetch page"

\* A probe has just been answered, by a response or by an exception.
ProbeAnswered == fbl_pc = "probe" /\ Len(answers') = Len(answers) + 1
LastAnswer == answers'[Len(answers')]

\* C12: a probe is classified by its status alone: 400 and above is appended
\* to the broken links; 301, 302, 303, 307 and 308 are appended to the
\* redirects, with the Location header as target, and not to the broken links;
\* any other status leaves both lists as they are.
C12_ClassifiedByStatus ==
    [][(ProbeAnswered /\ LastAnswer # NoResponse) =>
         LET link == unique_links[link_index]
             status == LastAnswer[1]
         IN  /\ status >= 400 =>
                   /\ Len(broken_links') = Len(broken_links) + 1
                   /\ SubSeq(broken_links', 1, Len(broken_links)) = broken_links
                   /\ broken_links'[Len(broken_links')].url = link
                   /\ broken_links'[Len(broken_links')].status_code = status
                   /\ redirects' = redirects
             /\ status \in {301, 302, 303, 307, 308} =>
                   /\ redirects' = Append(redirects,
                          [url |-> link, status_code |-> status,
                           redirect_target |-> probe_response'[1].location])
                   /\ broken_links' = broken_links
             /\ (status < 400 /\ status \notin {301, 302, 303, 307, 308}) =>
                   (broken_links' = broken_links /\ redirects' = redirects)]_vars

\* An audit has returned after a 301 to /new, a 304 and a 503: one redirect
\* with target /new, one broken link, one healthy link.
C12_Witness ==
    /\ fbl_pc = "done" /\ fbl_error = None
    /\ \E i \in 1..Len(redirects) :
          redirects[i].status_code = 301 /\ redirects[i].redirect_target = "/new"
    /\ \E i \in 1..Len(broken_links) :
          "status_code" \in DOMAIN broken_links[i] /\ broken_links[i].status_code = 503
    /\ \E i \in 2..Len(answers) : answers[i] = Got(304)
    /\ fbl_result.healthy_links = 1

\* The hrefs of the seed page, and what a set of hrefs resolves to.
SeedHrefs == Range(fbl_response[1].text)
Resolved(hrefs) == {urljoin(fbl_url, href) : href \in hrefs}

\* Once the seed page is fetched: it was requested once, with redirects
\* followed; the candidates are distinct, at most 50, and as many as 50 allows;
\* they are requested in turn, once each, without following redirects; at the
\* end the probes are as many as total_links_checked.
ProbesAre(candidates) ==
    (fbl_pc \in {"probe", "done"} /\ fbl_error = None) =>
        /\ requests[1] = Get(fbl_url, TRUE)
        /\ Len(requests) = link_index
        /\ \A i \in 2..Len(requests) : requests[i] = Get(unique_links[i - 1], FALSE)
        /\ Range(unique_links) \subseteq candidates
        /\ Cardinality(Range(unique_links)) = Len(unique_links)
        /\ Len(unique_links) =
              (IF Cardinality(candidates) < 50 THEN Cardinality(candidates) ELSE 50)
        /\ fbl_pc = "done" =>
              /\ Len(requests) - 1 = fbl_result.total_links_checked
              /\ fbl_result.total_links_checked = Len(unique_links)

\* C13, as stated: the candidates are the distinct resolved hrefs of the seed
\* page, whatever their host or scheme, cut to 50, each probed once without
\* following redirects, so that the probes number min(50, distinct hrefs).
C13_EveryHrefProbed == ProbesAre(Resolved(SeedHrefs))

\* C13, amended: the same of the distinct resolved non-empty hrefs.
C13_NonEmptyHrefsProbed ==
    ProbesAre(Resolved({href \in SeedHrefs : ~IsEmptyHref(href)}))

\* The audit of a page with more than 50 distinct links to another host, one
\* of them twice on the page, has returned after 50 probes.
C13_Witness ==
    /\ fbl_pc = "done" /\ fbl_error = None
    /\ Cardinality(Range(fbl_links)) > 50
    /\ Len(fbl_links) > Cardinality(Range(fbl_links))
    /\ \A i \in 1..Len(fbl_links) : fbl_links[i].netloc # fbl_url.netloc
    /\ fbl_result.total_links_checked = 50
    /\ Len(requests) = 51

BrokenUrls == {broken_links[i].url : i \in 1..Len(broken_links)}
RedirectUrls == {redirects[i].url : i \in 1..Len(redirects)}

\* The probes that answered a status below 400 that is no redirect.
HealthyProbes ==
    {i \in 2..Len(answers) :
        /\ answers[i] # NoResponse
        /\ answers[i][1] < 400
        /\ answers[i][1] \notin {301, 302, 303, 307, 308}}

\* C14: when the audit returns, no link is in both lists or twice in one,
\* both lists hold probed candidates only, and healthy_links = total - broken
\* - redirects is not negative and is the number of probes that answered a
\* status below 400 outside the redirect statuses.
C14_Partition ==
    (fbl_pc = "done" /\ fbl_error = None) =>
        /\ BrokenUrls \cap RedirectUrls = {}
        /\ Cardinality(BrokenUrls) = Len(broken_links)
        /\ Cardinality(RedirectUrls) = Len(redirects)
        /\ BrokenUrls \cup RedirectUrls \subseteq Range(unique_links)
        /\ fbl_result.broken_links = broken_links
        /\ fbl_result.redirects = redirects
        /\ fbl_result.healthy_links =
              fbl_result.total_links_checked - fbl_result.broken_count
                  - fbl_result.redirect_count
        /\ fbl_result.total_links_checked = Len(unique_links)
        /\ fbl_result.broken_count = Len(broken_links)
        /\ fbl_result.redirect_count = Len(redirects)
        /\ fbl_result.healthy_links >= 0
        /\ fbl_result.healthy_links = Cardinality(HealthyProbes)

\* An audit of three links has returned: two broken (one by an exception),
\* one redirect, none healthy.
C14_Witness ==
    /\ fbl_pc = "done" /\ fbl_error = None
    /\ Len(unique_links) = 3
    /\ Len(broken_links) = 2 /\ Len(redirects) = 1
    /\ \E i \in 2..Len(answers) : answers[i] = NoResponse
    /\ fbl_result.healthy_links = 0

\* C15: a probe that raises is appended to the broken links with the message
\* of the exception, the call goes on, and when it returns every candidate
\* has been probed.
C15_ProbeFailureRecorded ==
    /\ [][(ProbeAnswered /\ LastAnswer = NoResponse) =>
            /\ fbl_pc' = "probe"
            /\ link_index' = link_index + 1
            /\ \E e \in ErrorMessages :
                  broken_links' = Append(broken_links,
                      [url |-> unique_links[link_index], error |-> e])
            /\ redirects' = redirects]_vars
    /\ [](fbl_pc # "raised")
    /\ []((fbl_pc = "done" /\ fbl_error = None) =>
            /\ Len(requests) = 1 + Len(unique_links)
            /\ \A i \in 1..Len(unique_links) :
                  requests[i + 1].url = unique_links[i])

\* The first of three probes raised, the other two were answered, and the
\* audit has returned.
C15_Witness ==
    /\ fbl_pc = "done" /\ fbl_error = None
    /\ Len(answers) = 4
    /\ answers[2] = NoResponse /\ answers[3] # NoResponse /\ answers[4] # NoResponse
    /\ DOMAIN broken_links[1] = {"url", "error"}
    /\ broken_links[1].url = unique_links[1]

-----------------------------------------------------------------------------
(* The response of crawl_site after a larger crawl: lines 113-134 applied to *)
(* the state a crawl of depth 1 ends in, whose seed page links to every      *)
(* other URL of the site and whose last fetches failed.                      *)

\* https://example.com/<i>, and the href /<i>
SiteUrl(i) == Url("https", SeedHost, <<"", ToString(i)>>, "", "")
SiteHref(i) == Url("", "", <<"", ToString(i)>>, "", "")

\* The seed page, linking to the URLs 2..k, and a page without links.
HubPage(k) == [status_code |-> 200, text |-> [i \in 1..(k - 1) |-> SiteHref(i + 1)]]
LeafPage == [status_code |-> 200, text |-> <<>>]

\* The state at line 86 when the loop is about to end: n pages were fetched,
\* the seed first, and the last m requests failed.
InitReport ==
    \E n \in 1..MaxReportPages, m \in 0..MaxReportErrors :
        /\ url = SiteUrl(1)
        /\ max_pages \in {n + m, n + m + 1}
        /\ depth = 1
        /\ crawled_urls = {SiteUrl(i) : i \in 1..(n + m)}
        /\ to_crawl = <<>>
        /\ pages = [i \in 1..n |->
                      analyze_page(SiteUrl(i),
                                   IF i = 1 THEN HubPage(n + m) ELSE LeafPage)]
        /\ errors = [j \in 1..m |-> FailedToCrawl(SiteUrl(n + j), "ReadTimeout")]
        /\ current_url = SiteUrl(n + m)
        /\ current_depth = IF n + m = 1 THEN 0 ELSE 1
        /\ response = IF m > 0 THEN NoResponse
                      ELSE Got(IF n = 1 THEN HubPage(1) ELSE LeafPage)
        /\ error = IF m > 0 THEN "ReadTimeout" ELSE None
        /\ pc = "loop" /\ result = None
        /\ site_links = {<<SiteUrl(1), SiteUrl(i)>> : i \in 2..(n + m)}
        /\ InitFblIdle /\ InitNormIdle /\ InitThrottler /\ InitOnPageIdle /\ InitOneCall

NextReport ==
    \/ (LoopExit /\ UNCHANGED <<fbl_vars, norm_vars, thr_vars, conc_vars, onpage_vars>>)
    \/ (SaveRaised /\ UNCHANGED <<fbl_vars, norm_vars, thr_vars, conc_vars, onpage_vars>>)

SpecReport == InitReport /\ [][NextReport]_vars

\* C20: the response of crawl_site lists the first 10 page summaries and the
\* first 5 error entries, in the order they were recorded, and its counts
\* pages_found, pages_crawled and errors are the totals of the whole crawl.
C20_ResponseTruncated ==
    pc = "done" =>
        /\ Len(result.pages) = (IF Len(pages) < 10 THEN Len(pages) ELSE 10)
        /\ \A i \in 1..Len(result.pages) : result.pages[i] = pages[i]
        /\ Len(result.error_summary) = (IF Len(errors) < 5 THEN Len(errors) ELSE 5)
        /\ \A i \in 1..Len(result.error_summary) : result.error_summary[i] = errors[i]
        /\ result.pages_found = Len(pages)
        /\ result.errors = Len(errors)
        /\ result.pages_crawled = Cardinality(crawled_urls)
        /\ result.pages_crawled = Len(pages) + Len(errors)

\* A crawl with more than 10 pages and more than 5 errors has returned.
C20_Witness ==
    /\ pc = "done" /\ Len(pages) > 10 /\ Len(errors) > 5
    /\ Len(result.pages) = 10 /\ Len(result.error_summary) = 5
    /\ result.pages_found = Len(pages) /\ result.errors = Len(errors)

-----------------------------------------------------------------------------
(* The normalization of the link extractor, on URL strings. *)

\* Variant of clean_url: the query string stays.
clean_url_with_query(parsed_url) ==
    Atom(parsed_url.scheme) \o <<":", "/", "/">> \o Atom(parsed_url.netloc)
        \o JoinPath(parsed_url.path)
        \o (IF parsed_url.query = "" THEN <<>> ELSE <<"?", parsed_url.query>>)

\* f"{parsed_url.scheme}://{parsed_url.netloc}{parsed_url.path}", as text
clean_url(parsed_url) ==
    Atom(parsed_url.scheme) \o <<":", "/", "/">> \o Atom(parsed_url.netloc)
        \o JoinPath(parsed_url.path)

\* Lines 177-186: the href is not empty and resolves to the host of the page.
Kept(base_url, href) ==
    /\ href # <<>>
    /\ IsInternal(urljoin(base_url, urlparse(href)), base_url.netloc)

\* Lines 182-188: the deduplication key of an href of a page.
normalize(base_url, href) == clean_url(urljoin(base_url, urlparse(href)))

\* The hrefs: every combination of these parts.
SchemeParts == {<<>>, <<"https", ":">>, <<"http", ":">>, <<"mailto", ":">>}
AuthorityParts == {<<>>, <<"/", "/", "example.com">>, <<"/", "/", "other.org">>}
PathParts ==
    {<<>>, <<"/">>, <<"/", "a">>, <<"b">>, <<"..", "/", "c">>, <<"/", "a", "/">>,
     <<"/", "a", "/", "..", "/", "b">>}
QueryParts == {<<>>, <<"?", "q=1">>, <<"?", "x">>}
FragmentParts == {<<>>, <<"#", "top">>}

\* A path that follows a netloc begins with "/": without the "/" its first
\* piece would be text of the netloc.
WellFormed(authority, path) ==
    IF authority = <<>> THEN TRUE
    ELSE IF path = <<>> THEN TRUE
    ELSE path[1] = "/"

\* The pages the hrefs are found on.
Bases == Seeds \cup {Url("https", SeedHost, <<"", "a", "b">>, "", "")}

InitNormalize ==
    /\ InitCrawlIdle /\ InitFblIdle /\ InitThrottler /\ InitOnPageIdle /\ InitOneCall
    /\ n_base \in Bases
    /\ \E s \in SchemeParts, a \in AuthorityParts, p \in PathParts,
          q1 \in QueryParts, q2 \in QueryParts,
          f1 \in FragmentParts, f2 \in FragmentParts :
            /\ WellFormed(a, p)
            /\ n_href = s \o a \o p \o q1 \o f1
            /\ n_sibling = s \o a \o p \o q2 \o f2
    /\ n_key = <<>> /\ n_sibling_key = <<>> /\ n_again = <<>>
    /\ n_pc = "href"

\* Lines 176-190 for the two hrefs.
ExtractLinks ==
    /\ n_pc = "href"
    /\ n_key' = IF Kept(n_base, n_href) THEN normalize(n_base, n_href) ELSE <<>>
    /\ n_sibling_key' = IF Kept(n_base, n_sibling)
                        THEN normalize(n_base, n_sibling) ELSE <<>>
    /\ n_pc' = IF Kept(n_base, n_href) THEN "key" ELSE "skipped"
    /\ UNCHANGED <<n_base, n_href, n_sibling, n_again>>

\* Lines 176-190 for the key, met as an href of some page of the site.
ExtractAgain ==
    /\ n_pc = "key"
    /\ \E page \in Bases :
         n_again' = IF Kept(page, n_key) THEN normalize(page, n_key) ELSE <<>>
    /\ n_pc' = "again"
    /\ UNCHANGED <<n_base, n_href, n_sibling, n_key, n_sibling_key>>

NextNormalize ==
    \/ (ExtractLinks /\ UNCHANGED <<crawl_vars, fbl_vars, thr_vars, conc_vars, onpage_vars>>)
    \/ (ExtractAgain /\ UNCHANGED <<crawl_vars, fbl_vars, thr_vars, conc_vars, onpage_vars>>)

SpecNormalize == InitNormalize /\ [][NextNormalize]_vars

\* C11: the key of an href keeps the scheme, host and path of the resolved
\* href and has no query and no fragment; normalizing the key gives the key
\* again; and two hrefs that differ in query and fragment only have one key.
C11_NormalizeIdempotent ==
    /\ n_pc \in {"key", "again"} =>
          /\ urlparse(n_key) = CleanUrl(urljoin(n_base, urlparse(n_href)))
          /\ urlparse(n_key).query = "" /\ urlparse(n_key).fragment = ""
          /\ n_sibling # <<>> => n_sibling_key = n_key
    /\ n_pc = "again" => n_again = n_key

\* A relative href with a query and a fragment and its sibling without either
\* have the same key, and the key has been normalized again.
C11_Witness ==
    /\ n_pc = "again" /\ n_again = n_key /\ n_key # <<>>
    /\ n_sibling_key = n_key
    /\ urlparse(n_href).scheme = "" /\ urlparse(n_href).netloc = ""
    /\ urlparse(n_href).path = <<"..", "c">>
    /\ urlparse(n_href).query = "q=1" /\ urlparse(n_href).fragment = "top"
    /\ n_sibling = <<"..", "/", "c">>

-----------------------------------------------------------------------------
(* The throttler: Throttler(rate_limit=Config.REQUESTS_PER_SECOND,           *)
(* period=1.0) of asyncio_throttle, shared by the operations of one          *)
(* SiteCrawler that run at the same time.  Time is counted in ticks,         *)
(* PeriodTicks to the period; the log holds the age of each timestamp.       *)
(* acquire() is the library's loop: flush the log; if it holds fewer than    *)
(* rate_limit entries, append now and return; otherwise sleep                *)
(* retry_interval and try again.                                             *)

REQUESTS_PER_SECOND == 2

\* The places a request is sent from.
ViaMakeRequest ==
    {"crawl_site", "find_broken_links.seed", "check_robots_txt", "check_sitemap"}

\* Variant of Throttled: only _make_request enters the throttler.
ThrottledViaMakeRequestOnly(site) == site \in ViaMakeRequest

\* The request is sent inside `async with self.throttler`: in _make_request
\* (line 55) or in the probe loop of find_broken_links (line 399).
Throttled(site) == site \in ViaMakeRequest \/ site = "find_broken_links.probe"

\* Where the next request of an operation is sent from.
NextSite(op) ==
    IF op = "find_broken_links"
    THEN (IF issued[op] = 0 THEN "find_broken_links.seed"
          ELSE "find_broken_links.probe")
    ELSE op

\* The requests one call of an operation sends at most.
Limit(op) ==
    IF op \in {"check_robots_txt", "check_sitemap"} THEN 1 ELSE MaxFetches

\* Variant of Flush: nothing leaves the log.
FlushNothing(logs) == logs

\* Throttler.flush: the timestamps older than the period leave the log.
RECURSIVE Flush(_)
Flush(logs) ==
    IF logs # <<>> /\ Head(logs) > PeriodTicks THEN Flush(Tail(logs)) ELSE logs

\* `len(self._task_logs) < self.rate_limit`, after flush
HasRoom == Len(Flush(task_logs)) < REQUESTS_PER_SECOND

\* acquire() returns and the request is sent.
Start(op) ==
    /\ task_logs' = Append(Flush(task_logs), 0)
    /\ recent' = Append(recent, [op |-> op, site |-> NextSite(op), age |-> 0])
    /\ issued' = [issued EXCEPT ![op] = @ + 1]

\* An operation comes to its next request: acquire() returns at once when the
\* log has room, and sleeps otherwise.
Enter(op) ==
    /\ op \notin Range(waiting)
    /\ issued[op] < Limit(op)
    /\ IF ~Throttled(NextSite(op))
       THEN /\ recent' = Append(recent, [op |-> op, site |-> NextSite(op), age |-> 0])
            /\ issued' = [issued EXCEPT ![op] = @ + 1]
            /\ UNCHANGED <<task_logs, waiting>>
       ELSE IF HasRoom
       THEN Start(op) /\ UNCHANGED waiting
       ELSE /\ task_logs' = Flush(task_logs)
            /\ waiting' = Append(waiting, op)
            /\ UNCHANGED <<issued, recent>>

\* A sleeping operation wakes up and tries again.
Wake(op) ==
    /\ op \in Range(waiting)
    /\ IF HasRoom
       THEN Start(op) /\ waiting' = SelectSeq(waiting, LAMBDA w : w # op)
       ELSE /\ task_logs' = Flush(task_logs)
            /\ UNCHANGED <<issued, waiting, recent>>

\* The clock advances by one tick.
Tick ==
    /\ task_logs' = [i \in 1..Len(task_logs) |->
                       IF task_logs[i] > PeriodTicks THEN task_logs[i]
                       ELSE task_logs[i] + 1]
    /\ recent' = SelectSeq([i \in 1..Len(recent) |->
                              [recent[i] EXCEPT !.age = @ + 1]],
                           LAMBDA r : r.age <= PeriodTicks)
    /\ UNCHANGED <<issued, waiting>>

InitThrottle == InitCrawlIdle /\ InitFblIdle /\ InitNormIdle /\ InitThrottler /\ InitOnPageIdle /\ InitOneCall

NextThrottle ==
    \/ \E op \in Operations : Enter(op) /\ UNCHANGED <<crawl_vars, fbl_vars, norm_vars, conc_vars, onpage_vars>>
    \/ \E op \in Operations : Wake(op) /\ UNCHANGED <<crawl_vars, fbl_vars, norm_vars, conc_vars, onpage_vars>>
    \/ (Tick /\ UNCHANGED <<crawl_vars, fbl_vars, norm_vars, conc_vars, onpage_vars>>)

SpecThrottle == InitThrottle /\ [][NextThrottle]_vars

\* Time passes, and the event loop resumes a coroutine when its
\* asyncio.sleep(retry_interval) is over.
FairSpecThrottle ==
    /\ SpecThrottle
    /\ WF_thr_vars(Tick)
    /\ \A op \in Operations : WF_thr_vars(Wake(op))

RecentLogs == SelectSeq(task_logs, LAMBDA age : age <= PeriodTicks)

\* C17: every request started within the last period is in the log of the one
\* throttler, whatever operation sent it, and they are at most
\* REQUESTS_PER_SECOND (2 by default); an operation that found the log full
\* is waiting, not rejected.
C17_AtMostNPerPeriod ==
    /\ Len(recent) <= 2
    /\ Len(recent) <= REQUESTS_PER_SECOND
    /\ [i \in 1..Len(recent) |-> recent[i].age] = RecentLogs
    /\ \A op \in Operations : issued[op] <= Limit(op)
    /\ \A i \in 1..Len(waiting) : issued[waiting[i]] < Limit(waiting[i])

\* Two requests of different operations started in the same tick, a probe of
\* find_broken_links and a third operation wait for the log to have room.
C17_Witness ==
    /\ Len(recent) = 2 /\ recent[1].age = 0 /\ recent[2].age = 0
    /\ recent[1].op # recent[2].op
    /\ Len(waiting) = 2
    /\ "find_broken_links" \in Range(waiting)
    /\ issued["find_broken_links"] >= 1

\* A waiting operation leaves acquire() only with its request sent.
NoWaiterDropped ==
    [][\A op \in Range(waiting) :
          op \in Range(waiting') \/ issued'[op] = issued[op] + 1]_vars

EveryWaiterReleased ==
    \A op \in Operations : (op \in Range(waiting)) ~> (op \notin Range(waiting))

\* C18: the operations waiting in acquire() are released in the order they
\* called it: a request is started only by the operation that has waited
\* longest, or by a newcomer when nobody waits; no waiting operation is
\* dropped, and every one is released in the end.
C18_FifoFair ==
    /\ [][\A op \in Operations :
            issued'[op] = issued[op] + 1
               => (waiting = <<>> \/ Head(waiting) = op)]_vars
    /\ NoWaiterDropped
    /\ EveryWaiterReleased

-----------------------------------------------------------------------------
(* More properties of crawl_site *)

\* What a step of crawl_site leaves behind: the visited set, the frontier,
\* the page and error sequences, the entry dequeued last, whether the loop
\* has ended.
Traversal ==
    [crawled_urls |-> crawled_urls, to_crawl |-> to_crawl,
     pages |-> pages, errors |-> errors,
     current_url |-> current_url, current_depth |-> current_depth,
     ended |-> pc \in {"done", "raised"}, fetching |-> pc = "request"]

\* The outcome of the fetch last made.
Outcome == [response |-> response, error |-> error]

\* The traversal state that follows the present one when the fetch, if the
\* step makes one, has the given outcome.
NextTraversal(outcome) ==
    IF pc = "loop" /\ LoopCondition
    THEN [Traversal EXCEPT
            !.current_url = Head(to_crawl)[1],
            !.current_depth = Head(to_crawl)[2],
            !.to_crawl = Tail(to_crawl),
            !.crawled_urls =
                IF Skipped(Head(to_crawl)[1], Head(to_crawl)[2]) THEN @
                ELSE @ \cup {Head(to_crawl)[1]},
            !.fetching = ~Skipped(Head(to_crawl)[1], Head(to_crawl)[2])]
    ELSE IF pc = "loop"
    THEN [Traversal EXCEPT !.ended = TRUE]
    ELSE IF pc = "request" /\ outcome.response = NoResponse
    THEN [Traversal EXCEPT
            !.errors = Append(@, FailedToCrawl(current_url, outcome.error)),
            !.fetching = FALSE]
    ELSE IF pc = "request"
    THEN [Traversal EXCEPT
            !.pages = Append(@, analyze_page(current_url, outcome.response[1])),
            !.to_crawl =
                IF current_depth < depth
                THEN Enqueue(@, extract_internal_links(outcome.response[1].text,
                                                       current_url, base_domain),
                             crawled_urls, current_depth + 1)
                ELSE @,
            !.fetching = FALSE]
    ELSE Traversal

\* C21: the traversal is a function of the seed, max_pages, max_depth and the
\* fetch outcomes: every step leads to the one visited set, frontier,
\* dequeued entry, page sequence and error sequence that the state before it
\* and the outcome of its fetch determine, so two crawls that start alike
\* and meet the same outcomes dequeue and fetch the same URLs in the same
\* order and build the same pages and errors.
C21_Deterministic ==
    [][Traversal' = NextTraversal(Outcome')]_vars

\* Three URLs wait at the same depth while the fourth of that depth is
\* being fetched.
C21_Witness ==
    /\ pc = "request" /\ current_depth = 1
    /\ Len(to_crawl) = 3
    /\ \A i \in 1..3 : to_crawl[i][2] = 1
    /\ Cardinality(FrontierUrls \cup {current_url}) = 4

\* The URLs whose fetch has been made, in the order of their outcomes.
FetchedUrls == PageUrls \cup ErrorUrls

\* C22, as stated: no URL occurs in the frontier more than once.
C22_NoDuplicateInFrontier ==
    \A i, j \in 1..Len(to_crawl) : to_crawl[i][1] = to_crawl[j][1] => i = j

\* C22, amended: a discovered link is left out only when its URL is already
\* visited, so a URL may wait in the frontier more than once; an entry
\* whose URL is visited by the time it is dequeued is dropped, and no URL is
\* fetched twice.
C22_DroppedWhenDequeued ==
    /\ Len(pages) + Len(errors) = Cardinality(FetchedUrls)
    /\ pc = "request" => current_url \notin FetchedUrls
    /\ pc = "loop" => crawled_urls = FetchedUrls
    /\ \A i \in 1..Len(to_crawl) :
          \/ to_crawl[i][1] = url
          \/ \E e \in site_links : e[2] = to_crawl[i][1]

\* The seed and a page it links to both linked to a third page: that page
\* waited twice in the frontier, at depth 1 and at depth 2, was fetched once,
\* and its second entry has been dequeued and dropped.
C22_Witness ==
    /\ pc = "loop" /\ Len(pages) = 3 /\ errors = <<>>
    /\ pages[1].url = url /\ pages[3].url = current_url
    /\ depth = 2 /\ current_depth = 2
    /\ <<pages[1].url, current_url>> \in site_links
    /\ <<pages[2].url, current_url>> \in site_links
    /\ pages[2].url # current_url /\ pages[2].url # url
    /\ Cardinality(crawled_urls) = 3 /\ to_crawl = <<>>

\* The entries a step has put on the frontier.
Added == SubSeq(to_crawl', Len(to_crawl) + 1, Len(to_crawl'))

\* C23: the seed is enqueued at depth 0; a step that fetched a page dequeued
\* at depth d adds entries only when d < max_depth, each at depth d + 1;
\* every frontier entry and every page fetched has its depth in
\* 0..max_depth, the depths in the frontier never decrease from head to
\* tail, and with max_depth = 0 only the seed is fetched.
C23_DepthDiscipline ==
    /\ to_crawl = <<<<url, 0>>>>
    /\ [](\A i \in 1..Len(to_crawl) : to_crawl[i][2] \in 0..depth)
    /\ [](\A i, j \in 1..Len(to_crawl) : i <= j => to_crawl[i][2] <= to_crawl[j][2])
    /\ [](pc = "request" => current_depth \in 0..depth)
    /\ [](depth = 0 => crawled_urls \subseteq {url} /\ Len(pages) + Len(errors) <= 1)
    /\ [][pc = "request" =>
            /\ Len(to_crawl') >= Len(to_crawl)
            /\ \A i \in 1..Len(Added) : Added[i][2] = current_depth + 1
            /\ current_depth >= depth => to_crawl' = to_crawl]_vars

\* A crawl with max_depth = 0 and room for more pages has returned: the seed
\* page held five links and nothing else was fetched.
C23_Witness ==
    /\ pc = "done" /\ depth = 0 /\ max_pages > 1
    /\ Len(pages) = 1 /\ response # NoResponse /\ response[1].text = FiveLinkPage
    /\ to_crawl = <<>> /\ crawled_urls = {url}

\* For each anchor of a page, in document order: the URL it is normalized to
\* when it names a page of the site, nothing otherwise.
AnchorKeys(html, base_url) ==
    [i \in 1..Len(html) |->
        LET absolute_url == urljoin(base_url, html[i])
        IN  IF ~IsEmptyHref(html[i]) /\ absolute_url.netloc = base_domain
            THEN <<CleanUrl(absolute_url)>>
            ELSE <<>>]

\* The first anchor that is normalized to the URL u.
FirstAnchor(keys, u) ==
    CHOOSE i \in 1..Len(keys) :
        keys[i] = <<u>> /\ \A j \in 1..(i - 1) : keys[j] # <<u>>

\* C24: for the page a step has fetched, _extract_internal_links returns the
\* normalized URLs of the page's same-host anchors, each once, in the order of
\* their first anchors; when the links of the page are followed, the step
\* adds to the frontier those of them that are not visited, in that order.
C24_FirstAppearanceOrder ==
    [][(pc = "request" /\ response' # NoResponse) =>
         \A keys \in {AnchorKeys(response'[1].text, current_url)},
            links \in {extract_internal_links(response'[1].text, current_url,
                                                base_domain)} :
             /\ Range(links) = {k[1] : k \in {x \in Range(keys) : x # <<>>}}
             /\ \A i, j \in 1..Len(links) :
                   i < j => FirstAnchor(keys, links[i]) < FirstAnchor(keys, links[j])
             /\ current_depth < depth =>
                   [i \in 1..Len(Added) |-> Added[i][1]]
                      = SelectSeq(links, LAMBDA u : u \notin crawled_urls)]_vars

\* The seed page named /a, b, /c, / and /a?x=1#top: /a, b and /c wait in the
\* frontier in that order, the seed itself and the second /a were left out.
C24_Witness ==
    /\ pc = "loop" /\ Len(pages) = 1 /\ current_url = url
    /\ response # NoResponse /\ response[1].text = FiveLinkPage
    /\ url = Url("https", SeedHost, RootPath, "", "")
    /\ to_crawl = << <<Url("https", SeedHost, <<"", "a">>, "", ""), 1>>,
                     <<Url("https", SeedHost, <<"", "b">>, "", ""), 1>>,
                     <<Url("https", SeedHost, <<"", "c">>, "", ""), 1>> >>

\* C26: a step that got an HTTP response for the URL it dequeued appends one
\* page summary, of that URL and with the status code of the response,
\* whatever the code; no other step touches the pages.  So the pages are in
\* the order their URLs were dequeued, no URL has two summaries, no URL
\* whose fetch failed has one, and the report returned holds these pages.
C26_OnePagePerResponse ==
    /\ [][IF pc = "request" /\ response' # NoResponse
          THEN /\ Len(pages') = Len(pages) + 1
               /\ SubSeq(pages', 1, Len(pages)) = pages
               /\ pages'[Len(pages')].url = current_url
               /\ pages'[Len(pages')].status_code = response'[1].status_code
          ELSE pages' = pages]_vars
    /\ [](\A i, j \in 1..Len(pages) : pages[i].url = pages[j].url => i = j)
    /\ [](PageUrls \cap ErrorUrls = {})
    /\ [](pc = "loop" => PageUrls = crawled_urls \ ErrorUrls)
    /\ [](pc = "done" =>
            /\ result.pages_found = Len(pages)
            /\ result.pages = Take(pages, PagesShown))

\* A finished crawl of four URLs: the seed, a page answered with 404, a page
\* answered with 500, and a URL whose fetch failed.
C26_Witness ==
    /\ pc = "done" /\ Len(pages) = 3 /\ Len(errors) = 1
    /\ pages[1].status_code = 200
    /\ {pages[2].status_code, pages[3].status_code} = {404, 500}
    /\ result.pages_found = 3

\* C28: the report is handed to save_crawl_result only when the loop has
\* ended, and whether save_crawl_result succeeds or raises, the step that
\* ends the loop returns the crawl response to the caller.
C28_SinkOutcomeIgnored ==
    [][/\ (pc = "loop" /\ LoopCondition) => pc' \in {"loop", "request"}
       /\ (pc = "loop" /\ ~LoopCondition) =>
             (pc' = "done" /\ result' = CrawlResponse)]_vars

-----------------------------------------------------------------------------
(* crawl_site over pages with an href that urllib cannot parse.  urlsplit    *)
(* raises ValueError("Invalid IPv6 URL") for a netloc with an unmatched      *)
(* bracket, and so do urljoin (line 182) and urlparse (line 183); neither    *)
(* _extract_internal_links nor crawl_site has an except clause.              *)

ValueErrorNetlocs == {"[bad"}

hBad == Url("http", "[bad", EmptyPath, "", "")            \* http://[bad

\* urljoin(base_url, href) raises ValueError.
raises_value_error(href) == href.netloc \in ValueErrorNetlocs

\* _extract_internal_links(html, ...) raises: one of the hrefs it joins does.
extract_raises(html) ==
    \E i \in 1..Len(html) : ~IsEmptyHref(html[i]) /\ raises_value_error(html[i])

UnparsablePages ==
    {[status_code |-> 200, text |-> <<hA, hBad, hB>>],
     [status_code |-> 200, text |-> <<hBad>>]}

\* Lines 95-110 for a page of UnparsablePages: the summary is appended
\* (line 102), and when the links of the page are to be followed (line 104)
\* the exception of line 182 leaves _extract_internal_links and crawl_site.
PageUnparsable ==
    /\ pc = "request"
    /\ \E resp \in UnparsablePages :
         /\ ~fetch_failed(make_request(Returned(resp)))
         /\ response' = make_request(Returned(resp)).response
         /\ error' = make_request(Returned(resp)).error
         /\ pages' = Append(pages, analyze_page(current_url, resp))
         /\ pc' = IF current_depth < depth /\ extract_raises(resp.text)
                  THEN "raised" ELSE "loop"
    /\ UNCHANGED <<url, max_pages, depth, crawled_urls, to_crawl, errors,
                   current_url, current_depth, result, site_links>>

NextParse ==
    \/ Next
    \/ (PageUnparsable /\ UNCHANGED <<fbl_vars, norm_vars, thr_vars, conc_vars, onpage_vars>>)

SpecParse == Init /\ [][NextParse]_vars

\* C25: a failure to extract the links of a fetched page is confined to that
\* URL: the step that fetched the page takes no links from it, goes back to
\* the head of the loop with the frontier as it was, and no exception leaves
\* crawl_site.
C25_ExtractionFailureConfined ==
    [][(pc = "request" /\ response' # NoResponse /\ current_depth < depth
          /\ extract_raises(response'[1].text))
         => (pc' = "loop" /\ to_crawl' = to_crawl)]_vars

-----------------------------------------------------------------------------
(* Two calls of crawl_site on the one SiteCrawler of server.py (line 40),    *)
(* as two coroutines of one event loop: a coroutine runs until it awaits     *)
(* its request (line 95); then the other may be started or resumed.  The     *)
(* visited set, the frontier, the pages and the errors are local variables   *)
(* of crawl_site (lines 77-81), so each call has its own; the variables of   *)
(* crawl_site above hold those of the running call.                          *)

MaxPagesEach == 2       \* max_pages of each of the two calls is in 1..MaxPagesEach
MaxDepthEach == 1       \* depth of each of the two calls is in 0..MaxDepthEach

\* The local variables of the running call.
Frame ==
    [url |-> url, max_pages |-> max_pages, depth |-> depth,
     crawled_urls |-> crawled_urls, to_crawl |-> to_crawl,
     pages |-> pages, errors |-> errors,
     current_url |-> current_url, current_depth |-> current_depth,
     response |-> response, error |-> error, pc |-> pc, result |-> result,
     site_links |-> site_links]

\* The locals of a call that has not started: the state at line 86.
NewCall(u, m, d) ==
    [url |-> u, max_pages |-> m, depth |-> d,
     crawled_urls |-> {}, to_crawl |-> <<<<u, 0>>>>,
     pages |-> <<>>, errors |-> <<>>,
     current_url |-> None, current_depth |-> 0,
     response |-> NoResponse, error |-> None, pc |-> "loop", result |-> None,
     site_links |-> {}]

\* Variant of Resumed: the visited set is kept on the instance, a resumed
\* call finds in it what the other call has left there.
ResumedSharingVisited == [parked[1] EXCEPT !.crawled_urls = crawled_urls]

\* What a call finds in its local variables when it is started or resumed.
Resumed == parked[1]

InitTwoCalls ==
    /\ url \in Seeds
    /\ max_pages \in 1..MaxPagesEach
    /\ depth \in 0..MaxDepthEach
    /\ crawled_urls = {}
    /\ to_crawl = <<<<url, 0>>>>
    /\ pages = <<>>
    /\ errors = <<>>
    /\ current_url = None /\ current_depth = 0
    /\ response = NoResponse /\ error = None
    /\ pc = "loop" /\ result = None
    /\ site_links = {}
    /\ active = 1
    /\ parked \in {<<NewCall(url, m, d)>> :
                      m \in 1..MaxPagesEach, d \in 0..MaxDepthEach}
    /\ InitFblIdle /\ InitNormIdle /\ InitThrottler /\ InitOnPageIdle

\* The running call is suspended at its request, or has ended; the other
\* call is started, or resumed where its request returns.
Switch ==
    /\ active \in {1, 2}
    /\ pc \in {"request", "done", "raised"}
    /\ parked[1].pc \in {"loop", "request"}
    /\ active' = 3 - active
    /\ parked' = <<Frame>>
    /\ url' = Resumed.url
    /\ max_pages' = Resumed.max_pages
    /\ depth' = Resumed.depth
    /\ crawled_urls' = Resumed.crawled_urls
    /\ to_crawl' = Resumed.to_crawl
    /\ pages' = Resumed.pages
    /\ errors' = Resumed.errors
    /\ current_url' = Resumed.current_url
    /\ current_depth' = Resumed.current_depth
    /\ response' = Resumed.response
    /\ error' = Resumed.error
    /\ pc' = Resumed.pc
    /\ result' = Resumed.result
    /\ site_links' = Resumed.site_links

\* The steps of the running call, and the switch to the other one.  (With
\* max_pages <= MaxPagesEach the loop ends before an entry can be dequeued
\* for the second time, so no entry is skipped.)
NextTwoCalls ==
    \/ (VisitEntry /\ UNCHANGED <<fbl_vars, norm_vars, thr_vars, conc_vars, onpage_vars>>)
    \/ (RequestFailed /\ UNCHANGED <<fbl_vars, norm_vars, thr_vars, conc_vars, onpage_vars>>)
    \/ (RequestSucceeded /\ UNCHANGED <<fbl_vars, norm_vars, thr_vars, conc_vars, onpage_vars>>)
    \/ (LoopExit /\ UNCHANGED <<fbl_vars, norm_vars, thr_vars, conc_vars, onpage_vars>>)
    \/ (SaveRaised /\ UNCHANGED <<fbl_vars, norm_vars, thr_vars, conc_vars, onpage_vars>>)
    \/ (Switch /\ UNCHANGED <<fbl_vars, norm_vars, thr_vars, onpage_vars>>)

SpecTwoCalls == InitTwoCalls /\ [][NextTwoCalls]_vars

\* The traversal state held in the locals f of a call.
TraversalOf(f) ==
    [crawled_urls |-> f.crawled_urls, to_crawl |-> f.to_crawl,
     pages |-> f.pages, errors |-> f.errors,
     current_url |-> f.current_url, current_depth |-> f.current_depth,
     ended |-> f.pc \in {"done", "raised"}, fetching |-> f.pc = "request"]

Arguments(f) == <<f.url, f.max_pages, f.depth>>

\* C27: of two calls of crawl_site that run concurrently on one SiteCrawler,
\* each has its visited set, frontier, pages and errors to itself: a step of
\* the running call leaves the other call's untouched and leads to the state
\* that its own state and fetch outcome determine, as when it runs alone; a
\* call that is resumed finds them as it left them.
C27_CallsIsolated ==
    [][IF active' # active
       THEN /\ TraversalOf(parked'[1]) = Traversal
            /\ Arguments(parked'[1]) = <<url, max_pages, depth>>
            /\ Traversal' = TraversalOf(parked[1])
            /\ <<url', max_pages', depth'>> = Arguments(parked[1])
       ELSE /\ parked' = parked
            /\ Traversal' = NextTraversal(Outcome')
            /\ <<url', max_pages', depth'>> = <<url, max_pages, depth>>]_vars

\* Both calls have fetched the seed and are suspended at the request for the
\* same page, each with its own visited set and frontier.
C27_Witness ==
    /\ active = 2 /\ pc = "request" /\ parked[1].pc = "request"
    /\ current_url = parked[1].current_url /\ current_url # url
    /\ Len(pages) = 1 /\ Len(parked[1].pages) = 1
    /\ crawled_urls = parked[1].crawled_urls
    /\ to_crawl # parked[1].to_crawl

-----------------------------------------------------------------------------
(* The outcomes of the visited URLs, whatever the pages hold *)

\* C29: every visited URL has one outcome, a page or an error: whenever the
\* loop is at its head, and when crawl_site has ended, the pages and the
\* errors together are as many as the visited URLs (the URL being fetched
\* has none yet); in the response pages_found + errors = pages_crawled, and
\* the pages are at most max_pages less the failed fetches.
C29_OneOutcomePerVisit ==
    /\ pc \in {"loop", "done", "raised"} =>
          /\ Len(pages) + Len(errors) = Cardinality(crawled_urls)
          /\ FetchedUrls = crawled_urls
    /\ pc = "request" =>
          /\ Len(pages) + Len(errors) = Cardinality(crawled_urls) - 1
          /\ FetchedUrls = crawled_urls \ {current_url}
    /\ PageUrls \cap ErrorUrls = {}
    /\ Len(pages) <= max_pages - Len(errors)
    /\ pc = "done" =>
          /\ result.pages_found + result.errors = result.pages_crawled
          /\ result.pages_found <= max_pages - result.errors

\* A crawl that used its whole budget of four has returned: two pages, two
\* failed fetches.
C29_Witness ==
    /\ pc = "done" /\ max_pages = 4
    /\ result.pages_found = 2 /\ result.errors = 2 /\ result.pages_crawled = 4

-----------------------------------------------------------------------------
(* OnPageSEOAnalyzer._analyze_internal_links (src/analyzers/onpage_seo.py):  *)
(* the loop that counts the links of a page as internal or external.  An     *)
(* href is text, cut as above.                                               *)

MaxLinks == 3           \* a page has 1..MaxLinks links

\* The first pieces of text that begin with the characters "http".
HttpPieces == {"http", "https", "http-guide.html"}

\* href.startswith('http')
StartsWithHttp(href) == href # <<>> /\ href[1] \in HttpPieces

\* href.startswith('mailto:'), href.startswith('tel:')
StartsWithScheme(href, scheme) ==
    Len(href) >= 2 /\ href[1] = scheme /\ href[2] = ":"

\* href.startswith('/')
StartsWithSlash(href) == href # <<>> /\ href[1] = "/"

\* Variant of link_class: an href that names a host is judged by that host.
link_class_by_host(href, page_domain) ==
    IF urlparse(href).netloc # ""
    THEN (IF urlparse(href).netloc = page_domain THEN "internal" ELSE "external")
    ELSE IF StartsWithScheme(href, "mailto") \/ StartsWithScheme(href, "tel")
         THEN "neither" ELSE "internal"

\* Lines 414-421: the counter an href adds to.
link_class(href, page_domain) ==
    IF StartsWithHttp(href)
    THEN (IF urlparse(href).netloc = page_domain THEN "internal" ELSE "external")
    ELSE IF StartsWithSlash(href)
            \/ ~(StartsWithHttp(href) \/ StartsWithScheme(href, "mailto")
                   \/ StartsWithScheme(href, "tel"))
         THEN "internal"
         ELSE "neither"

PageUrlTexts ==
    {<<"https", ":", "/", "/", "example.com", "/", "a">>,
     <<"https", ":", "/", "/", "other.org", "/">>}

ProtocolRelativeOther == <<"/", "/", "other.org", "/", "a">>   \* //other.org/a

HrefTexts ==
    {<<"https", ":", "/", "/", "example.com", "/", "b">>,
     <<"http", ":", "/", "/", "example.com">>,
     <<"https", ":", "/", "/", "other.org", "/">>,
     ProtocolRelativeOther,
     <<"/", "/", "example.com", "/", "a">>,
     <<"/", "a">>,
     <<"b">>,
     <<"#", "top">>,
     <<>>,
     <<"http-guide.html">>,
     <<"mailto", ":", "bot@example.com">>,
     <<"tel", ":", "+15550100">>,
     <<"javascript", ":", "void(0)">>}

RECURSIVE LinkLists(_)
LinkLists(n) ==
    IF n = 0 THEN {<<>>}
    ELSE {Append(l, h) : l \in LinkLists(n - 1), h \in HrefTexts}

\* Lines 390-400: the links are found and the counters are at zero.
InitOnPage ==
    /\ op_base_url \in PageUrlTexts
    /\ op_links \in UNION {LinkLists(n) : n \in 1..MaxLinks}
    /\ op_index = 0
    /\ op_analysis = [total_links |-> Len(op_links), internal_links |-> 0,
                      external_links |-> 0]
    /\ op_pc = "loop"
    /\ InitCrawlIdle /\ InitFblIdle /\ InitNormIdle
    /\ InitThrottler /\ InitOneCall

\* Lines 402-421: one turn of the loop over the links.
CountLink ==
    /\ op_pc = "loop" /\ op_index < Len(op_links)
    /\ op_index' = op_index + 1
    /\ LET class == link_class(op_links[op_index + 1], urlparse(op_base_url).netloc)
       IN  op_analysis' =
             [op_analysis EXCEPT
                !.internal_links = IF class = "internal" THEN @ + 1 ELSE @,
                !.external_links = IF class = "external" THEN @ + 1 ELSE @]
    /\ UNCHANGED <<op_base_url, op_links, op_pc>>

\* The loop is over and the analysis is returned.
LinksCounted ==
    /\ op_pc = "loop" /\ op_index = Len(op_links)
    /\ op_pc' = "done"
    /\ UNCHANGED <<op_base_url, op_links, op_index, op_analysis>>

NextOnPage ==
    \/ (CountLink
          /\ UNCHANGED <<crawl_vars, fbl_vars, norm_vars, thr_vars, conc_vars>>)
    \/ (LinksCounted
          /\ UNCHANGED <<crawl_vars, fbl_vars, norm_vars, thr_vars, conc_vars>>)

SpecOnPage == InitOnPage /\ [][NextOnPage]_vars

\* The links the loop has been through.
Counted == 1..op_index

PageHost == urlparse(op_base_url).netloc

\* C30: of the links counted so far, the internal ones are those whose href
\* does not start with http, mailto: or tel:, whatever host it names, and
\* those whose href starts with http and names the host of the page; the
\* external ones are those whose href starts with http and names another
\* host, or none.  A protocol-relative href to another host is internal.
C30_InternalLinkCount ==
    /\ op_pc \in {"loop", "done"} =>
          /\ op_analysis.internal_links =
                Cardinality({i \in Counted :
                    \/ /\ ~StartsWithHttp(op_links[i])
                       /\ ~StartsWithScheme(op_links[i], "mailto")
                       /\ ~StartsWithScheme(op_links[i], "tel")
                    \/ /\ StartsWithHttp(op_links[i])
                       /\ urlparse(op_links[i]).netloc = PageHost})
          /\ op_analysis.external_links =
                Cardinality({i \in Counted :
                    /\ StartsWithHttp(op_links[i])
                    /\ urlparse(op_links[i]).netloc # PageHost})
          /\ op_analysis.total_links = Len(op_links)
    /\ (op_pc = "done" /\ op_links = <<ProtocolRelativeOther>>
          /\ PageHost = "example.com") => op_analysis.internal_links = 1

\* A page of example.com with //other.org/a, https://other.org/ and a mailto:
\* link has been counted: one internal link, one external.
C30_Witness ==
    /\ op_pc = "done" /\ PageHost = "example.com"
    /\ op_links = <<ProtocolRelativeOther,
                    <<"https", ":", "/", "/", "other.org", "/">>,
                    <<"mailto", ":", "bot@example.com">> >>
    /\ op_analysis.internal_links = 1 /\ op_analysis.external_links = 1

====
